---- MODULE Spec2Model ----
(***************************************************************************)
(* A model of backend/main.py of ai-seo-insights: the HuggingFaceClient    *)
(* (enabled flag, retry loop of query_model), the SEOAnalyzer pipeline and *)
(* the /api/analyze and /health handlers.                                  *)
(*                                                                         *)
(* Conventions.                                                            *)
(*  - A Python string is modelled by what the code reads of it: a record   *)
(*    [len, dots] (its length and the number of trailing "." characters).  *)
(*  - A float with one decimal (readability) is an integer number of       *)
(*    tenths: 70.0 is 700.  A polarity is an integer number of hundredths. *)
(*  - Python's None is the record None.                                    *)
(***************************************************************************)
EXTENDS Integers, Sequences, FiniteSets, TLC

VARIABLES
    api_key,    \* HF_API_KEY: Null (not set), "" or a key
    enabled,    \* hf_client.enabled
    punkt,      \* whether nltk's punkt tokenizer data could be loaded
    setOrder,   \* iteration order of list(set(...)) in this process
    authFailed, \* history: some HTTP response of this process was a 401
    lateRequest, \* history: an HTTP request was issued after a 401 was seen
    pc,         \* pc[p]: "idle", or "call" (inside query_model's loop)
    site,       \* site[p]: the call site of the query_model call in progress
    attempt,    \* attempt[p]: the loop variable of query_model
    requests,   \* requests[p]: HTTP requests issued by the call in progress
    request,    \* request[p]: the request handler p serves or served last
    ctx,        \* ctx[p]: the locals of the handler in progress
    response,   \* response[p]: the last response handler p returned
    call        \* last application of a pure function: [fn, args, ret]

serverVars == <<api_key, enabled, punkt, setOrder, authFailed, lateRequest, pc,
                site, attempt, requests, request, ctx, response>>

vars == <<serverVars, call>>

\* ---------------------------------------------------------------- bounds
\* concurrent request handlers
NumProcs == 2
\* word tokens of a text given to extract_keywords
MaxTokens == 3
\* entries of a list returned by the external keyword capability
MaxAi == 3
\* largest max_keywords tried
MaxKw == 3

\* ------------------------------------------------------- program constants
\* def query_model(self, model_name, payload, max_retries: int = 3)
max_retries == 3

None == [shape |-> "None"]
Null == "<null>"
Absent == "<absent>"

Min(a, b) == IF a <= b THEN a ELSE b
Max(a, b) == IF a >= b THEN a ELSE b

\* s[:n] of a sequence
Take(s, n) == SubSeq(s, 1, Min(n, Len(s)))

Range(s) == {s[i] : i \in 1..Len(s)}

\* ----------------------------------------------------------------- strings
Str(n, d) == [len |-> n, dots |-> d]

\* s.rstrip(".")
rstrip_dot(s) == Str(s.len - s.dots, 0)

\* s[:n] + "..." (used only where len(s) > n)
cut_ellipsis(s, n) == Str(n + 3, 3)

\* ------------------------------------------------------------------ words
\* len(word) of the words the model's texts, summaries and keyword lists are
\* made of
WordLen(w) == CASE w = "the" -> 3 [] w = "with" -> 4 [] w = "seo" -> 3
                [] w = "ai" -> 2
                [] w = "guide" -> 5 [] w = "work" -> 4 [] w = "data" -> 4
                [] w = "2024" -> 4 [] OTHER -> 4

\* str.isalpha()
isalpha(w) == w # "2024"

\* str.isdigit()
isdigit(w) == w = "2024"

\* self.stop_words, restricted to the vocabulary
stop_words == {"the", "with"}

\* common_words of extract_keywords_ai, restricted to the vocabulary
common_words == {"with", "work"}

\* exceptions: a call either returns a value or raises
Ret(v) == [raised |-> FALSE, value |-> v]
Raise == [raised |-> TRUE]

\* --------------------------------------------------- external responses
\* The JSON body of a 200 response: an object, or a list of items; an item
\* is a scalar, a list of items, or an object with the keys label (Absent:
\* the key is missing, Null: JSON null), score (0 when missing) and
\* summary_text (the words of the summary, <<>> when missing).
JsonObject == [shape |-> "object"]
JsonList(items) == [shape |-> "list", items |-> items]
Scalar == [kind |-> "scalar"]
Dict(label, score, summary_text) ==
    [kind |-> "dict", label |-> label, score |-> score,
     summary_text |-> summary_text]
Nested(items) == [kind |-> "list", items |-> items]

\* max(scores, key=lambda x: x.get("score", 0)): the first of the largest
best_sentiment(scores) ==
    LET top == CHOOSE i \in 1..Len(scores) :
                   /\ \A j \in 1..Len(scores) : scores[j].score <= scores[i].score
                   /\ \A j \in 1..(i - 1) : scores[j].score < scores[i].score
    IN scores[top]

\* analyze_sentiment_advanced after query_model has returned `result`; an
\* exception inside the try block is caught and None returned.
analyze_sentiment_advanced(result) ==
    IF result.shape # "list" THEN None
    ELSE IF result.items = <<>> THEN None
    ELSE LET scores == IF result.items[1].kind = "list"
                       THEN result.items[1].items ELSE result.items
         IN IF scores = <<>> \/ \E i \in 1..Len(scores) : scores[i].kind # "dict"
            THEN None
            ELSE LET best == best_sentiment(scores)
                 IN [shape |-> "sentiment",
                     label |-> IF best.label = Absent THEN "UNKNOWN" ELSE best.label]

\* label.upper()
upper(label) == CASE label = "positive" -> "POSITIVE"
                  [] label = "negative" -> "NEGATIVE"
                  [] label = "neutral" -> "NEUTRAL"
                  [] OTHER -> label

\* sub in label, for the two substrings the code looks for
contains(label, sub) ==
    CASE sub = "POS" -> label \in {"POSITIVE", "POS"}
      [] sub = "POSITIVE" -> label = "POSITIVE"
      [] sub = "NEG" -> label \in {"NEGATIVE", "NEG"}
      [] sub = "NEGATIVE" -> label = "NEGATIVE"
      [] OTHER -> FALSE

\* the TextBlob fallback of analyze_sentiment; polarity in hundredths
local_sentiment(polarity) ==
    IF polarity > 10 THEN "Positive"
    ELSE IF polarity < -10 THEN "Negative"
    ELSE "Neutral"

\* analyze_sentiment, given what analyze_sentiment_advanced returned;
\* None.upper() raises AttributeError
analyze_sentiment(ai_sentiment, text) ==
    IF ai_sentiment # None
    THEN IF ai_sentiment.label = Null THEN Raise
         ELSE LET label == upper(ai_sentiment.label)
              IN IF contains(label, "POSITIVE") \/ contains(label, "POS")
                 THEN Ret("Positive")
                 ELSE IF contains(label, "NEGATIVE") \/ contains(label, "NEG")
                 THEN Ret("Negative")
                 ELSE Ret("Neutral")
    ELSE Ret(local_sentiment(text.polarity))

\* the elements of set `S` in the order `order` lists them: list(set(...))
RECURSIVE list_of_set(_, _)
list_of_set(S, order) ==
    IF order = <<>> THEN <<>>
    ELSE (IF Head(order) \in S THEN <<Head(order)>> ELSE <<>>)
         \o list_of_set(S, Tail(order))

\* extract_keywords_ai after query_model has returned `result`
extract_keywords_ai(result, order) ==
    IF result.shape # "list" THEN <<>>
    ELSE IF result.items = <<>> THEN <<>>
    ELSE IF result.items[1].kind # "dict" THEN <<>>
    ELSE LET summary_text == result.items[1].summary_text
             words == {w \in Range(summary_text) : isalpha(w) /\ WordLen(w) >= 4}
             keywords == {w \in words : w \notin common_words}
         IN Take(list_of_set(keywords, order), 10)

\* ------------------------------------------------------------- keywords
\* the distinct elements of a sequence, in first-encountered order
RECURSIVE distinct(_)
distinct(s) ==
    IF s = <<>> THEN <<>>
    ELSE LET rest == distinct(SubSeq(s, 1, Len(s) - 1))
         IN IF s[Len(s)] \in Range(rest) THEN rest ELSE Append(rest, s[Len(s)])

Count(s, w) == Cardinality({i \in 1..Len(s) : s[i] = w})

\* a stable sort of `keys` by descending count in `s`
RECURSIVE sort_by_count(_, _)
sort_by_count(keys, s) ==
    IF keys = <<>> THEN <<>>
    ELSE LET i == CHOOSE i \in 1..Len(keys) :
                      /\ \A j \in 1..Len(keys) : Count(s, keys[j]) <= Count(s, keys[i])
                      /\ \A j \in 1..(i - 1) : Count(s, keys[j]) < Count(s, keys[i])
         IN <<keys[i]>> \o sort_by_count(SubSeq(keys, 1, i - 1)
                                          \o SubSeq(keys, i + 1, Len(keys)), s)

\* a most_common that leaves the words in first-encountered order
most_common_first_seen(words, n) == Take(distinct(words), n)

\* Counter(words).most_common(n), the words only
most_common(words, n) == Take(sort_by_count(distinct(words), words), n)

\* for kw in ai_keywords: if kw not in seen and len(kw) > 2: append, add
RECURSIVE add_ai_keywords(_, _)
add_ai_keywords(acc, ai_keywords) ==
    IF ai_keywords = <<>> THEN acc
    ELSE LET kw == Head(ai_keywords)
         IN add_ai_keywords(
                IF kw \notin acc.seen /\ WordLen(kw) > 2
                THEN [combined |-> Append(acc.combined, kw),
                      seen |-> acc.seen \cup {kw}]
                ELSE acc,
                Tail(ai_keywords))

\* for kw in traditional_keywords: if kw not in seen and
\* len(combined_keywords) < max_keywords: append, add
RECURSIVE add_traditional_keywords(_, _, _)
add_traditional_keywords(acc, traditional_keywords, max_keywords) ==
    IF traditional_keywords = <<>> THEN acc
    ELSE LET kw == Head(traditional_keywords)
         IN add_traditional_keywords(
                IF kw \notin acc.seen /\ Len(acc.combined) < max_keywords
                THEN [combined |-> Append(acc.combined, kw),
                      seen |-> acc.seen \cup {kw}]
                ELSE acc,
                Tail(traditional_keywords), max_keywords)

\* the filter of extract_keywords on one token
meaningful(word) ==
    /\ word \notin stop_words
    /\ WordLen(word) > 3
    /\ isalpha(word)
    /\ ~isdigit(word)

\* a return without the slice
keywords_unsliced(combined_keywords, max_keywords) == combined_keywords

\* return combined_keywords[:max_keywords]
keywords_result(combined_keywords, max_keywords) ==
    Take(combined_keywords, max_keywords)

\* extract_keywords; `tokens` is word_tokenize of the cleaned lower-case text
\* and `ai_keywords` what self.hf_client.extract_keywords_ai(text) returned
extract_keywords(tokens, max_keywords, ai_keywords) ==
    LET filtered_words == SelectSeq(tokens, meaningful)
        traditional_keywords == most_common(filtered_words, max_keywords * 2)
        with_ai == add_ai_keywords([combined |-> <<>>, seen |-> {}], ai_keywords)
        all == add_traditional_keywords(with_ai, traditional_keywords, max_keywords)
    IN keywords_result(all.combined, max_keywords)

\* ------------------------------------------------------------ the text
\* A request text is the record of what the analysis reads of it:
\*   blank      text.strip() is empty
\*   len, dots  the raw text as a string
\*   lines      text.strip().split("\n"), each line stripped: a string with
\*              upper (isupper()), titlecase (line.title() == line), nwords
\*              (len(line.split())) and md (the markdown prefix "# ", "## ",
\*              "### ", "#" for any other line starting with "#", "" for none)
\*   sentences  sent_tokenize(text): strings
\*   tokens     word_tokenize of the cleaned lower-case text
\*   words      the number of alphabetic tokens of word_tokenize(text)
\*   flesch     textstat.flesch_reading_ease(text) rounded, in tenths
\*   polarity   TextBlob(text).sentiment.polarity, in hundredths
Line(n, d, up, tc, nw, md) ==
    [len |-> n, dots |-> d, upper |-> up, titlecase |-> tc, nwords |-> nw,
     md |-> md]

\* sent_tokenize raises LookupError when the punkt data is missing
sent_tokenize(text, pk) == IF pk THEN Ret(text.sentences) ELSE Raise

\* the test of extract_title on one stripped line
title_line(line) ==
    /\ line.len > 0
    /\ line.len < 100
    /\ line.dots = 0
    /\ line.len > 10

extract_title(text, pk) ==
    LET lines == Take(text.lines, 3)
        hits == {i \in 1..Len(lines) : title_line(lines[i])}
    IN IF hits # {}
       THEN LET first == CHOOSE i \in hits : \A j \in hits : i <= j
            IN Ret(Str(lines[first].len, lines[first].dots))
       ELSE LET sentences == sent_tokenize(text, pk)
            IN IF sentences.raised THEN Raise
               ELSE IF sentences.value # <<>>
               THEN LET first_sentence == sentences.value[1]
                    IN IF first_sentence.len <= 60
                       THEN Ret(rstrip_dot(first_sentence))
                       ELSE Ret(cut_ellipsis(first_sentence, 57))
               ELSE IF text.len > 60 THEN Ret(cut_ellipsis(text, 60))
               ELSE Ret(Str(text.len, text.dots))

\* a loop that skips a sentence that does not fit and goes on to the next
RECURSIVE pack_sentences_skipping(_, _, _)
pack_sentences_skipping(sentences, i, acc) ==
    IF i > Len(sentences) THEN acc
    ELSE IF acc.len + sentences[i].len + 1 <= 155
    THEN pack_sentences_skipping(sentences, i + 1,
                                 [len |-> acc.len + sentences[i].len + 1, last |-> i])
    ELSE pack_sentences_skipping(sentences, i + 1, acc)

\* the loop of generate_meta_description from sentence i on: acc.len is
\* len(description), acc.last the last sentence taken (0: none)
RECURSIVE pack_sentences(_, _, _)
pack_sentences(sentences, i, acc) ==
    IF i > Len(sentences) THEN acc
    ELSE IF acc.len + sentences[i].len + 1 <= 155
    THEN pack_sentences(sentences, i + 1,
                        [len |-> acc.len + sentences[i].len + 1, last |-> i])
    ELSE acc

\* a description that falls back on the raw text without cutting it
generate_meta_description_uncut(text, pk) ==
    LET sentences == sent_tokenize(text, pk)
    IN IF sentences.raised THEN Raise
       ELSE LET description == pack_sentences(sentences.value, 1,
                                              [len |-> 0, last |-> 0])
            IN IF description.last = 0 THEN Ret(Str(text.len, text.dots))
               ELSE Ret(Str(description.len - 1,
                            sentences.value[description.last].dots))

generate_meta_description(text, pk) ==
    LET sentences == sent_tokenize(text, pk)
    IN IF sentences.raised THEN Raise
       ELSE LET description == pack_sentences(sentences.value, 1,
                                              [len |-> 0, last |-> 0])
                \* description.strip(): the trailing space goes
                result == IF description.last = 0 THEN Str(0, 0)
                          ELSE Str(description.len - 1,
                                   sentences.value[description.last].dots)
            IN IF result.len = 0
               THEN IF text.len > 155 THEN Ret(cut_ellipsis(text, 155))
                    ELSE Ret(Str(text.len, text.dots))
               ELSE IF result.len > 155 THEN Ret(cut_ellipsis(result, 152))
               ELSE Ret(result)

\* max(0.0, min(100.0, round(flesch_score, 1))), in tenths
calculate_readability(text) == Max(0, Min(1000, text.flesch))

count_words(text) == text.words

\* a round that takes halves up
round_half_up(n, d) == (2 * n + d) \div (2 * d)

\* Python's round(n / d): to the nearest integer, halves to the even one
round_div(n, d) ==
    LET q == n \div d
        r == n % d
    IN IF 2 * r < d THEN q
       ELSE IF 2 * r > d THEN q + 1
       ELSE IF q % 2 = 0 THEN q ELSE q + 1

\* a reading time without the floor of one minute
calculate_reading_time_unfloored(word_count) == round_div(word_count, 200)

calculate_reading_time(word_count) == Max(1, round_div(word_count, 200))

\* ------------------------------------------------------------ structure
\* the heading a line counts as: "h1", "h2", "h3" or "" (none)
heading_of(line) ==
    IF line.len = 0 \/ line.len > 100 THEN ""
    ELSE IF line.upper /\ line.nwords <= 8 THEN "h1"
    ELSE IF line.titlecase /\ line.dots = 0 /\ line.nwords <= 10 THEN "h2"
    ELSE IF line.md # ""
    THEN (IF line.md = "# " THEN "h1"
          ELSE IF line.md = "## " THEN "h2"
          ELSE IF line.md = "### " THEN "h3"
          ELSE "")
    ELSE ""

count_headings(lines, h) ==
    Cardinality({i \in 1..Len(lines) : heading_of(lines[i]) = h})

get_reading_grade(flesch_score) ==
    IF flesch_score >= 900 THEN "5th grade"
    ELSE IF flesch_score >= 800 THEN "6th grade"
    ELSE IF flesch_score >= 700 THEN "7th grade"
    ELSE IF flesch_score >= 600 THEN "8th-9th grade"
    ELSE IF flesch_score >= 500 THEN "10th-12th grade"
    ELSE IF flesch_score >= 300 THEN "College level"
    ELSE "Graduate level"

\* a complexity level whose bounds are exclusive
get_complexity_level_exclusive(flesch_score) ==
    IF flesch_score > 700 THEN "Easy"
    ELSE IF flesch_score > 300 THEN "Medium"
    ELSE "Hard"

get_complexity_level(flesch_score) ==
    IF flesch_score >= 700 THEN "Easy"
    ELSE IF flesch_score >= 300 THEN "Medium"
    ELSE "Hard"

\* analyze_content_structure: the headings and the readability analysis (the
\* paragraph statistics and the linking suggestions are left out)
analyze_content_structure(text) ==
    LET h1 == count_headings(text.lines, "h1")
        h2 == count_headings(text.lines, "h2")
        readability_score == calculate_readability(text)
    IN [headings |->
            [h1 |-> h1, h2 |-> h2, h3 |-> count_headings(text.lines, "h3"),
             h4 |-> 0,
             issues |->
                 (IF h1 = 0 /\ h2 = 0 THEN <<"No clear headings found">> ELSE <<>>)
                 \o (IF h1 > 1 THEN <<"Multiple H1-level headings detected">>
                     ELSE <<>>)],
        readability |->
            [fleschScore |-> readability_score,
             grade |-> get_reading_grade(readability_score),
             complexity |-> get_complexity_level(readability_score)]]

\* a preview that already truncates at the limits themselves
create_google_preview_at_limit(title, description) ==
    LET title_truncated == title.len >= 60
        description_truncated == description.len >= 160
    IN [title |-> IF title_truncated THEN cut_ellipsis(title, 57) ELSE title,
        description |-> IF description_truncated
                        THEN cut_ellipsis(description, 157) ELSE description,
        titleTruncated |-> title_truncated,
        descriptionTruncated |-> description_truncated]

create_google_preview(title, description) ==
    LET title_truncated == title.len > 60
        description_truncated == description.len > 160
    IN [title |-> IF title_truncated THEN cut_ellipsis(title, 57) ELSE title,
        description |-> IF description_truncated
                        THEN cut_ellipsis(description, 157) ELSE description,
        titleTruncated |-> title_truncated,
        descriptionTruncated |-> description_truncated]

\* ---------------------------------------------------------------- score
readability_points(readability) ==
    IF readability >= 700 THEN 25
    ELSE IF readability >= 500 THEN 20
    ELSE IF readability >= 300 THEN 15
    ELSE 10

\* word-count buckets with strict comparisons
word_count_points_strict(word_count) ==
    IF word_count > 600 THEN 25
    ELSE IF word_count > 300 THEN 20
    ELSE IF word_count > 150 THEN 15
    ELSE 5

word_count_points(word_count) ==
    IF word_count >= 600 THEN 25
    ELSE IF word_count >= 300 THEN 20
    ELSE IF word_count >= 150 THEN 15
    ELSE 5

keyword_points(keywords) ==
    IF Len(keywords) >= 8 THEN 25
    ELSE IF Len(keywords) >= 5 THEN 20
    ELSE IF Len(keywords) >= 3 THEN 15
    ELSE 5

title_score(title) ==
    IF 30 <= title.len /\ title.len <= 60 THEN 15
    ELSE IF 20 <= title.len /\ title.len <= 80 THEN 10
    ELSE 5

desc_score(description) ==
    IF 120 <= description.len /\ description.len <= 160 THEN 10
    ELSE IF 100 <= description.len /\ description.len <= 180 THEN 7
    ELSE 3

\* a score that adds the readability itself, not its bucket, and is not clamped
calculate_seo_score_raw(readability, word_count, keywords, title, description) ==
    readability \div 10 + word_count_points(word_count) + keyword_points(keywords)
    + title_score(title) + desc_score(description)

calculate_seo_score(readability, word_count, keywords, title, description) ==
    LET score == readability_points(readability) + word_count_points(word_count)
                 + keyword_points(keywords)
                 + title_score(title) + desc_score(description)
    IN Min(100, Max(0, score))

determine_content_health(readability, word_count, keywords) ==
    IF readability >= 700 /\ word_count >= 300 /\ Len(keywords) >= 5
    THEN "Excellent"
    ELSE IF readability >= 500 /\ word_count >= 200 /\ Len(keywords) >= 3
    THEN "Good"
    ELSE IF readability >= 300 /\ word_count >= 100 THEN "Fair"
    ELSE "Needs Improvement"

\* ------------------------------------------------------ recommendations
\* Recommendation(id=..., title=..., ...); `keyword` is the keyword the
\* texts of the recommendation embed ("" for none)
Recommendation(id, title, keyword, impact, effort, category, priority) ==
    [id |-> id, title |-> title, keyword |-> keyword, impact |-> impact,
     effort |-> effort, category |-> category, priority |-> priority]

\* an append that forgets rec_id += 1
add_recommendation_same_id(st, title, keyword, impact, effort, category, priority) ==
    [recommendations |->
         Append(st.recommendations,
                Recommendation(st.rec_id, title, keyword, impact, effort,
                               category, priority)),
     rec_id |-> st.rec_id]

\* recommendations.append(Recommendation(id=rec_id, ...)); rec_id += 1
add_recommendation(st, title, keyword, impact, effort, category, priority) ==
    [recommendations |->
         Append(st.recommendations,
                Recommendation(st.rec_id, title, keyword, impact, effort,
                               category, priority)),
     rec_id |-> st.rec_id + 1]

\* a cap that cuts the list at five
limit_recommendations_to_five(recommendations) == Take(recommendations, 5)

\* return recommendations[:8]
limit_recommendations(recommendations) == Take(recommendations, 8)

generate_recommendations(keywords, word_count, readability, title, description, content_structure) ==
    LET s0 == [recommendations |-> <<>>, rec_id |-> 1]
        s1 == IF title.len < 30
              THEN add_recommendation(s0, "Optimize Title Length", "", "High",
                                      "Quick Fix", "Technical", 1)
              ELSE IF title.len > 60
              THEN add_recommendation(s0, "Shorten Title Tag", "", "High",
                                      "Quick Fix", "Technical", 1)
              ELSE s0
        s2 == IF description.len < 120
              THEN add_recommendation(s1, "Expand Meta Description", "", "Medium",
                                      "Quick Fix", "Technical", 2)
              ELSE s1
        s3 == IF keywords # <<>>
              THEN add_recommendation(s2, "Optimize for Primary Keyword",
                                      keywords[1], "High", "Moderate",
                                      "Keywords", 1)
              ELSE s2
        s4 == IF word_count < 300
              THEN add_recommendation(s3, "Increase Content Length", "", "High",
                                      "Moderate", "Content", 1)
              ELSE s3
        s5 == IF readability < 500
              THEN add_recommendation(s4, "Improve Content Readability", "",
                                      "Medium", "Moderate", "Content", 2)
              ELSE s4
        s6 == IF content_structure.headings.h1 = 0
                 /\ content_structure.headings.h2 = 0
              THEN add_recommendation(s5, "Add Content Structure", "", "Medium",
                                      "Quick Fix", "Content", 2)
              ELSE s5
    IN limit_recommendations(s6.recommendations)

\* ------------------------------------------------------------- results
\* AnalysisResult; `kind` tells which return statement of analyze_content
\* built it (rawText and the url are left out)
AnalysisResult(kind, seoScore, contentHealth, contentStructure, recommendations, metaTags, googlePreview, sentiment, keywords) ==
    [kind |-> kind, seoScore |-> seoScore, contentHealth |-> contentHealth,
     contentStructure |-> contentStructure, recommendations |-> recommendations,
     metaTags |-> metaTags, googlePreview |-> googlePreview,
     sentiment |-> sentiment, keywords |-> keywords]

ContentHealth(readabilityScore, readingTime, wordCount, health) ==
    [readabilityScore |-> readabilityScore, readingTime |-> readingTime,
     wordCount |-> wordCount, health |-> health]

\* the canned structure of the empty and the error result
canned_structure(issue, fleschScore, grade) ==
    [headings |-> [h1 |-> 0, h2 |-> 0, h3 |-> 0, h4 |-> 0, issues |-> <<issue>>],
     readability |-> [fleschScore |-> fleschScore, grade |-> grade,
                      complexity |-> "Medium"]]

\* "No Content" has 10 characters, "No content provided for analysis" 32
empty_result ==
    AnalysisResult("empty", 0,
        ContentHealth(0, 0, 0, "Needs Improvement"),
        canned_structure("No content provided", 0, "N/A"),
        <<Recommendation(1, "Add Content to Analyze", "", "High", "Quick Fix",
                         "Content", 1)>>,
        [title |-> Str(10, 0), description |-> Str(32, 0), keywords |-> <<>>],
        [title |-> Str(10, 0), description |-> Str(32, 0),
         titleTruncated |-> FALSE, descriptionTruncated |-> FALSE],
        "Neutral", <<>>)

\* "Analysis Error" has 14 characters, "Error occurred during analysis" 30
error_result ==
    AnalysisResult("error", 50,
        ContentHealth(500, 1, 0, "Error"),
        canned_structure("Analysis error occurred", 500, "Error"),
        <<Recommendation(1, "Analysis Error", "", "High", "Quick Fix",
                         "Technical", 1)>>,
        [title |-> Str(14, 0), description |-> Str(30, 0), keywords |-> <<>>],
        [title |-> Str(14, 0), description |-> Str(30, 0),
         titleTruncated |-> FALSE, descriptionTruncated |-> FALSE],
        "Neutral", <<>>)

\* SEOAnalyzer.analyze from the Google preview on, given the values the
\* earlier statements computed
analyze_result(text, title, meta_description, keywords, sentiment) ==
    LET readability_score == calculate_readability(text)
        word_count == count_words(text)
        reading_time == calculate_reading_time(word_count)
        content_structure == analyze_content_structure(text)
    IN AnalysisResult("pipeline",
           calculate_seo_score(readability_score, word_count, keywords, title,
                               meta_description),
           ContentHealth(readability_score, reading_time, word_count,
               determine_content_health(readability_score, word_count, keywords)),
           content_structure,
           generate_recommendations(keywords, word_count, readability_score,
                                    title, meta_description, content_structure),
           [title |-> title, description |-> meta_description,
            keywords |-> Take(keywords, 10)],
           create_google_preview(title, meta_description),
           sentiment, keywords)

\* ------------------------------------------------------------- handlers
\* Requests are served concurrently, one handler per request in flight; the
\* handlers interleave at the blocking calls of query_model (requests.post,
\* time.sleep), so one iteration of its loop is one step.  query_model is a
\* plain synchronous method of the one shared client.  The handlers are
\* declared async and never await, so under a single uvicorn event loop they
\* run one after the other: those are the behaviours in which a handler
\* inside query_model is the only one to step (SeqSpec has nothing else).
\* Spec also has the interleavings of a server that runs handlers in
\* parallel.  The static-file routes, /api/status and /api/test-ai are left
\* out.
Procs == 1..NumProcs

NoCtx == [kind |-> "none"]
NoRequest == [kind |-> "none"]
NoResponse == [kind |-> "none"]

\* the handler waits inside query_model, called at site s
Blocked(s, c) == [pc |-> "call", site |-> s, ctx |-> c, response |-> NoResponse]
\* the handler has returned response r
Returned(r) == [pc |-> "idle", site |-> "", ctx |-> NoCtx, response |-> r]

\* the exception leaves the handler instead of being caught
analysis_error_propagated == [kind |-> "exception"]

\* the except block of analyze_content: the canned Error result
analysis_error == error_result

\* analyze(): content_structure = self.analyze_content_structure(text), whose
\* extract_keywords(text, max_keywords=20) calls the client a third time
enter_structure(en, text, c) ==
    IF en THEN Blocked("kw2", c)
    ELSE Returned(analyze_result(text, c.title, c.description, c.keywords,
                                 c.sentiment))

\* analyze(): sentiment = self.analyze_sentiment(text), from the return of
\* analyze_sentiment_advanced on
after_sentiment(en, text, c, ai_sentiment) ==
    LET sentiment == analyze_sentiment(ai_sentiment, text)
    IN IF sentiment.raised THEN Returned(analysis_error)
       ELSE enter_structure(en, text, [c EXCEPT !.sentiment = sentiment.value])

\* analyze_sentiment_advanced and query_model both return None when the
\* client is not enabled
enter_sentiment(en, text, c) ==
    IF en THEN Blocked("sent", c) ELSE after_sentiment(en, text, c, None)

\* analyze(): keywords = self.extract_keywords(text), from the return of
\* extract_keywords_ai on
after_keywords(en, text, c, ai_keywords) ==
    enter_sentiment(en, text,
        [c EXCEPT !.keywords = extract_keywords(text.tokens, 10, ai_keywords)])

\* extract_keywords_ai returns [] when the client is not enabled
enter_keywords(en, text, c) ==
    IF en THEN Blocked("kw", c) ELSE after_keywords(en, text, c, <<>>)

\* analyze_content without its test for a blank text
analyze_content_unguarded(en, pk, text) ==
    LET title == extract_title(text, pk)
        meta_description == generate_meta_description(text, pk)
    IN IF title.raised \/ meta_description.raised
       THEN Returned(analysis_error)
       ELSE enter_keywords(en, text,
                [kind |-> "analyze", title |-> title.value,
                 description |-> meta_description.value,
                 keywords |-> <<>>, sentiment |-> ""])

\* POST /api/analyze up to the first blocking call
analyze_content(en, pk, text) ==
    IF text.blank THEN Returned(empty_result)
    ELSE LET title == extract_title(text, pk)
             meta_description == generate_meta_description(text, pk)
         IN IF title.raised \/ meta_description.raised
            THEN Returned(analysis_error)
            ELSE enter_keywords(en, text,
                     [kind |-> "analyze", title |-> title.value,
                      description |-> meta_description.value,
                      keywords |-> <<>>, sentiment |-> ""])

\* bool(test_result)
truthy(result) ==
    /\ result # None
    /\ ~(result.shape = "list" /\ result.items = <<>>)

health_response(en, sentiment) ==
    [kind |-> "health", ai_status |-> IF en THEN "enabled" ELSE "disabled",
     sentiment |-> sentiment]

\* GET /health up to the blocking call
health_check(en) ==
    IF en THEN Blocked("health", [kind |-> "health"])
    ELSE Returned(health_response(en, "disabled"))

\* the handler goes on after query_model has returned `result` at site s
resume(s, en, text, c, result, order) ==
    CASE s = "kw" -> after_keywords(en, text, c, extract_keywords_ai(result, order))
      [] s = "sent" -> after_sentiment(en, text, c, analyze_sentiment_advanced(result))
      [] s = "kw2" -> Returned(analyze_result(text, c.title, c.description,
                                              c.keywords, c.sentiment))
      [] s = "health" -> Returned(health_response(en,
                             IF truthy(result) THEN "available" ELSE "error"))

\* ---------------------------------------------------------- query_model
\* a loop that allows one attempt more than max_retries
next_attempt_one_more(attempt_) ==
    IF attempt_ + 1 < max_retries + 1
    THEN [done |-> FALSE, attempt |-> attempt_ + 1, disable |-> FALSE]
    ELSE [done |-> TRUE, result |-> None, disable |-> FALSE]

\* the for loop goes on with the next attempt, or is over and None returned
next_attempt(attempt_) ==
    IF attempt_ + 1 < max_retries
    THEN [done |-> FALSE, attempt |-> attempt_ + 1, disable |-> FALSE]
    ELSE [done |-> TRUE, result |-> None, disable |-> FALSE]

\* a 503 response: time.sleep(2**attempt); continue
on_503(attempt_) == next_attempt(attempt_)

\* a 401 response: self.enabled = False; return None
on_401(attempt_) == [done |-> TRUE, result |-> None, disable |-> TRUE]

\* an else branch that disables the client as the 401 branch does
on_other_disabling(attempt_) == [done |-> TRUE, result |-> None, disable |-> TRUE]

\* any other status (the else branch): return None
on_other(attempt_) == [done |-> TRUE, result |-> None, disable |-> FALSE]

\* one iteration of the loop of query_model, the response being `resp`
query_model(attempt_, resp) ==
    CASE resp.status = "200" ->
             [done |-> TRUE, result |-> resp.payload, disable |-> FALSE]
      [] resp.status = "503" -> on_503(attempt_)
      [] resp.status = "401" -> on_401(attempt_)
      [] resp.status = "429" -> next_attempt(attempt_)
      [] resp.status \in {"timeout", "error"} -> next_attempt(attempt_)
      [] OTHER -> on_other(attempt_)

\* --------------------------------------------------------------- inputs
Text(blank, n, d, lines, sentences, tokens, words, flesch, polarity) ==
    [blank |-> blank, len |-> n, dots |-> d, lines |-> lines,
     sentences |-> sentences, tokens |-> tokens, words |-> words,
     flesch |-> flesch, polarity |-> polarity]

\* "   ": nothing to analyse
BlankText == Text(TRUE, 3, 0, <<Line(0, 0, FALSE, FALSE, 0, "")>>, <<>>, <<>>,
                  0, 0, 0)

\* "Guide data guide." on one line
ShortText == Text(FALSE, 17, 1, <<Line(17, 1, FALSE, FALSE, 3, "")>>,
                  <<Str(17, 1)>>, <<"guide", "data", "guide">>, 3, 450, 50)

\* the JSON bodies the external service answers with
Payloads ==
    { JsonObject,
      JsonList(<<>>),
      JsonList(<<Scalar>>),
      JsonList(<<Dict("positive", 2, <<>>), Dict("negative", 1, <<>>)>>),
      JsonList(<<Nested(<<Dict("neutral", 1, <<>>), Dict("NEGATIVE", 2, <<>>)>>)>>),
      JsonList(<<Dict(Absent, 0, <<"guide", "with", "data", "guide">>)>>),
      JsonList(<<Dict(Null, 1, <<>>)>>) }

Response(status, payload) == [status |-> status, payload |-> payload]

\* what one requests.post can end in: a status (other: any further status),
\* a timeout or another RequestException
Responses ==
    {Response("200", b) : b \in Payloads}
    \cup {Response(st, None) :
              st \in {"503", "401", "429", "other", "timeout", "error"}}

\* the orders list(set(...)) can give the keywords of a summary
SetOrders == {<<"guide", "data">>, <<"data", "guide">>}

NoCall == [fn |-> "none"]

\* HuggingFaceClient.__init__: self.enabled = bool(api_key)
client_enabled(key) == key # Null /\ key # ""

Init ==
    /\ api_key \in {Null, "", "hf_key"}
    /\ enabled = client_enabled(api_key)
    /\ punkt \in BOOLEAN
    /\ setOrder \in SetOrders
    /\ authFailed = FALSE
    /\ lateRequest = FALSE
    /\ pc = [p \in Procs |-> "idle"]
    /\ site = [p \in Procs |-> ""]
    /\ attempt = [p \in Procs |-> 0]
    /\ requests = [p \in Procs |-> 0]
    /\ request = [p \in Procs |-> NoRequest]
    /\ ctx = [p \in Procs |-> NoCtx]
    /\ response = [p \in Procs |-> NoResponse]
    /\ call = NoCall

\* handler p moves to local state `next`
Goto(p, next) ==
    /\ pc' = [pc EXCEPT ![p] = next.pc]
    /\ site' = [site EXCEPT ![p] = next.site]
    /\ ctx' = [ctx EXCEPT ![p] = next.ctx]
    /\ response' = [response EXCEPT ![p] = next.response]
    /\ attempt' = [attempt EXCEPT ![p] = 0]
    /\ requests' = [requests EXCEPT ![p] = 0]

\* POST /api/analyze with body {"text": text} arrives at handler p
AnalyzeRequest(p, text) ==
    /\ pc[p] = "idle"
    /\ request' = [request EXCEPT ![p] = [kind |-> "analyze", text |-> text]]
    /\ Goto(p, analyze_content(enabled, punkt, text))
    /\ UNCHANGED <<api_key, enabled, punkt, setOrder, authFailed, lateRequest, call>>

\* GET /health arrives at handler p
HealthRequest(p) ==
    /\ pc[p] = "idle"
    /\ request' = [request EXCEPT ![p] = [kind |-> "health"]]
    /\ Goto(p, health_check(enabled))
    /\ UNCHANGED <<api_key, enabled, punkt, setOrder, authFailed, lateRequest, call>>

\* handler p, inside query_model, posts its request and gets `resp`; when
\* query_model returns, the handler runs on to its next blocking call or to
\* its response
QueryModelAttempt(p, resp) ==
    /\ pc[p] = "call"
    /\ LET step == query_model(attempt[p], resp)
           en == IF step.disable THEN FALSE ELSE enabled
       IN /\ enabled' = en
          /\ IF step.done
             THEN Goto(p, resume(site[p], en,
                                 IF request[p].kind = "analyze"
                                 THEN request[p].text ELSE BlankText,
                                 ctx[p], step.result, setOrder))
             ELSE /\ attempt' = [attempt EXCEPT ![p] = step.attempt]
                  /\ requests' = [requests EXCEPT ![p] = @ + 1]
                  /\ UNCHANGED <<pc, site, ctx, response>>
    /\ authFailed' = (authFailed \/ resp.status = "401")
    /\ lateRequest' = (lateRequest \/ authFailed)
    /\ UNCHANGED <<api_key, punkt, setOrder, request, call>>

\* the handlers in `procs` serve requests whose texts are in `texts`, the
\* external service answering with one of `responses`
Serve(procs, texts, responses) ==
    \E p \in procs :
        \/ \E text \in texts : AnalyzeRequest(p, text)
        \/ HealthRequest(p)
        \/ \E resp \in responses : QueryModelAttempt(p, resp)

\* Concurrent handlers, two texts, every status and three JSON bodies.
Texts == {BlankText, ShortText}

ConcurrentResponses ==
    {r \in Responses :
        r.status = "200" =>
            r.payload \in
                { JsonObject,
                  JsonList(<<Dict("positive", 2, <<>>), Dict("negative", 1, <<>>)>>),
                  JsonList(<<Dict(Absent, 0, <<"guide", "with", "data", "guide">>)>>) }}

Next == Serve(Procs, Texts, ConcurrentResponses)

Spec == Init /\ [][Next]_vars

\* handler p, inside query_model, moves on: the steps that do this are its
\* QueryModelAttempt steps, each of which changes its attempt, its call site
\* or its pc
Responded(p) ==
    /\ pc[p] = "call"
    /\ <<pc[p], site[p], attempt[p]>>' # <<pc[p], site[p], attempt[p]>>

\* requests.post has a timeout of 30 seconds and every sleep is finite: a
\* handler inside query_model gets its next response.  This is weak fairness
\* of the handler's QueryModelAttempt, which is enabled exactly when
\* pc[p] = "call", written out.
LiveSpec ==
    /\ Spec
    /\ \A p \in Procs : []<>(pc[p] # "call") \/ []<><<Responded(p)>>_vars

\* One handler serving one request after the other, many texts, every
\* response.
\* "..." and nothing else
DotsText == Text(FALSE, 3, 3, <<Line(3, 3, FALSE, FALSE, 1, "")>>, <<Str(3, 3)>>,
                 <<>>, 0, 1000, 0)

\* The first lines and sentences of a longer text:
\*   1  a title-case heading of 45 characters, then sentences of 70, 60, 50
\*   2  a heading of 80 characters, then one sentence of 200
\*   3  a markdown line "# ..." ending in a period, sentences of 75 and 79
\*   4  two upper-case headings, a first sentence of 40 characters
Heads ==
    { [lines |-> <<Line(45, 0, FALSE, TRUE, 6, ""), Line(135, 1, FALSE, FALSE, 24, "")>>,
       sentences |-> <<Str(70, 1), Str(60, 1), Str(50, 1)>>],
      [lines |-> <<Line(80, 0, FALSE, FALSE, 12, ""), Line(200, 1, FALSE, FALSE, 30, "")>>,
       sentences |-> <<Str(200, 1)>>],
      [lines |-> <<Line(75, 1, FALSE, FALSE, 12, "# "), Line(79, 1, FALSE, FALSE, 13, "")>>,
       sentences |-> <<Str(75, 1), Str(79, 1)>>],
      [lines |-> <<Line(8, 0, TRUE, FALSE, 1, ""), Line(9, 0, TRUE, FALSE, 2, ""),
                   Line(40, 1, FALSE, FALSE, 7, "")>>,
       sentences |-> <<Str(40, 1)>>] }

TokenLists ==
    { <<"the", "with", "the">>,
      <<"guide", "the", "data", "work", "data">>,
      <<"guide", "data", "work", "kw4", "kw5", "kw6", "kw7", "kw8", "guide">> }

\* a head followed by a body that brings the text to `words` words
LongText(head, words, flesch, tokens, polarity) ==
    Text(FALSE, 300 + 6 * words, 1, head.lines,
         head.sentences \o <<Str(6 * words, 1)>>, tokens, words, flesch, polarity)

SeqTexts ==
    {BlankText, DotsText, ShortText}
    \cup {LongText(head, words, flesch, tokens, polarity) :
              head \in Heads, words \in {100, 650},
              flesch \in {-50, 700, 1100}, tokens \in TokenLists,
              polarity \in {-50}}

SeqNext == Serve({1}, SeqTexts, Responses)

SeqSpec == Init /\ [][SeqNext]_vars

\* ------------------------------------------------- functions on their own
\* One application of a pure function to arguments drawn from bounded sets;
\* the server stands still.
PureInit ==
    /\ Init
    /\ api_key = Null
    /\ punkt
    /\ setOrder = <<"guide", "data">>

Applied(fn, args, ret) ==
    /\ call' = [fn |-> fn, args |-> args, ret |-> ret]
    /\ UNCHANGED serverVars

SeqsUpTo(S, n) == UNION {[1..k -> S] : k \in 0..n}

\* calculate_seo_score at and around every threshold
Readabilities == {0, 299, 300, 499, 500, 699, 700, 1000}
WordCounts == {0, 149, 150, 299, 300, 599, 600, 2000}
KeywordCounts == {0, 2, 3, 4, 5, 7, 8, 10}
TitleLens == {0, 19, 20, 29, 30, 60, 61, 80, 81}
DescLens == {0, 99, 100, 119, 120, 160, 161, 180, 181}

KeywordList(n) == [i \in 1..n |-> "kw"]

ScoreNext ==
    /\ call = NoCall
    /\ \E readability \in Readabilities, word_count \in WordCounts,
          n \in KeywordCounts, t \in TitleLens, d \in DescLens :
           Applied("calculate_seo_score",
                   [readability |-> readability, word_count |-> word_count,
                    keywords |-> n, title |-> t, description |-> d],
                   calculate_seo_score(readability, word_count, KeywordList(n),
                                       Str(t, 0), Str(d, 0)))

ScoreSpec == PureInit /\ [][ScoreNext]_vars

\* extract_keywords on every short token list, every short list of external
\* keywords and every small max_keywords
TokenPool == {"the", "guide", "data", "work"}
AiPool == {"guide", "seo", "ai"}

KwNext ==
    /\ call = NoCall
    /\ \E tokens \in SeqsUpTo(TokenPool, MaxTokens),
          ai_keywords \in SeqsUpTo(AiPool, MaxAi), max_keywords \in 0..MaxKw :
           Applied("extract_keywords",
                   [tokens |-> tokens, max_keywords |-> max_keywords,
                    ai_keywords |-> ai_keywords],
                   extract_keywords(tokens, max_keywords, ai_keywords))

KwSpec == PureInit /\ [][KwNext]_vars

\* query_model as a function of the responses the service gives to the
\* successive requests of one call
RECURSIVE query_model_loop(_, _)
query_model_loop(attempt_, resps) ==
    LET step == query_model(attempt_, resps[attempt_ + 1])
    IN IF step.done THEN step.result ELSE query_model_loop(step.attempt, resps)

\* SEOAnalyzer.analyze_sentiment with the client enabled or not
sentiment_of(en, resps, text) ==
    analyze_sentiment(
        IF en THEN analyze_sentiment_advanced(query_model_loop(0, resps)) ELSE None,
        text)

Polarities == {-100, -11, -10, 0, 10, 11, 100}

SentimentNext ==
    /\ call = NoCall
    /\ \E en \in BOOLEAN, resps \in [1..max_retries -> Responses],
          polarity \in Polarities :
           Applied("analyze_sentiment",
                   [enabled |-> en, responses |-> resps,
                    result |-> IF en THEN query_model_loop(0, resps) ELSE None,
                    polarity |-> polarity],
                   sentiment_of(en, resps, [polarity |-> polarity]))

SentimentSpec == PureInit /\ [][SentimentNext]_vars

\* ------------------------------------------------------------- properties
AnalysisResults == {"pipeline", "empty", "error"}

\* the canned Error result, by the fields a caller sees
IsErrorResult(r) ==
    /\ r.kind = "error"
    /\ r.seoScore = 50
    /\ r.contentHealth.health = "Error"
    /\ Len(r.recommendations) = 1
    /\ r.recommendations[1].title = "Analysis Error"
    /\ r.recommendations[1].id = 1

\* the response `resp` ends handler p's sentiment call with a label on which
\* analyze_sentiment raises
SentimentRaises(p, resp) ==
    /\ pc[p] = "call"
    /\ site[p] = "sent"
    /\ LET step == query_model(attempt[p], resp)
       IN /\ step.done
          /\ analyze_sentiment(analyze_sentiment_advanced(step.result),
                               request[p].text).raised

\* C1: for every request whose text is not blank, an exception raised by a
\* step of the analysis pipeline (the sentence tokenizer without its data,
\* analyze_sentiment on a label that is no string) never leaves the handler:
\* the response is the canned Error result with seoScore 50, health "Error"
\* and exactly one recommendation, titled "Analysis Error" with id 1.
ExceptionsGiveErrorResult ==
    /\ [](\A p \in Procs :
            /\ response[p].kind # "exception"
            /\ response[p].kind = "error" =>
                   IsErrorResult(response[p]) /\ ~request[p].text.blank
            /\ (/\ pc[p] = "idle"
                /\ request[p].kind = "analyze"
                /\ ~request[p].text.blank
                /\ ~punkt) => response[p].kind = "error")
    /\ [][\A p \in Procs, resp \in Responses :
            SentimentRaises(p, resp) /\ QueryModelAttempt(p, resp) =>
                pc'[p] = "idle" /\ IsErrorResult(response'[p])]_vars

\* a text that is not blank got the Error result although the tokenizer data
\* is there: analyze_sentiment raised and the handler caught it
ErrorResultReturned ==
    \E p \in Procs :
        /\ punkt
        /\ pc[p] = "idle"
        /\ request[p].kind = "analyze"
        /\ ~request[p].text.blank
        /\ IsErrorResult(response[p])

\* the canned placeholder result, by the fields a caller sees
IsPlaceholder(r) ==
    /\ r.kind = "empty"
    /\ r.seoScore = 0
    /\ r.contentHealth.wordCount = 0
    /\ r.contentHealth.health = "Needs Improvement"
    /\ Len(r.recommendations) = 1
    /\ r.recommendations[1].title = "Add Content to Analyze"

\* C2: for every request whose text is empty or only whitespace, the analyze
\* endpoint returns at once the canned placeholder result (seoScore 0,
\* wordCount 0, health "Needs Improvement", exactly one recommendation titled
\* "Add Content to Analyze"); it enters no call of the external capability
\* and leaves the client's state (enabled, the requests issued) unchanged.
BlankGivesPlaceholder ==
    /\ [](\A p \in Procs :
            (request[p].kind = "analyze" /\ request[p].text.blank) =>
                pc[p] = "idle" /\ IsPlaceholder(response[p]))
    /\ [][\A p \in Procs, text \in Texts :
            (text.blank /\ AnalyzeRequest(p, text)) =>
                /\ pc'[p] = "idle"
                /\ IsPlaceholder(response'[p])
                /\ UNCHANGED <<enabled, authFailed, lateRequest, attempt,
                               requests>>]_vars

\* a blank request was answered with the placeholder while the client was
\* enabled
BlankAnsweredWhileEnabled ==
    \E p \in Procs :
        /\ enabled
        /\ pc[p] = "idle"
        /\ request[p].kind = "analyze"
        /\ request[p].text.blank
        /\ IsPlaceholder(response[p])

\* C3: every call of query_model terminates whatever the external service
\* answers (200, 503, 429, 401, another status, timeout, connection error):
\* the request it is about to issue is never beyond the max_retries-th, and a
\* handler that is inside query_model always comes to its response.
QueryModelTerminates ==
    /\ [](\A p \in Procs :
            /\ requests[p] \in 0..(max_retries - 1)
            /\ pc[p] = "call" => requests[p] = attempt[p])
    /\ \A p \in Procs : (pc[p] = "call") ~> (pc[p] = "idle")

\* a handler is about to issue the last request query_model allows
LastAttemptReached ==
    \E p \in Procs : pc[p] = "call" /\ requests[p] = max_retries - 1

EnabledOnlyFallsOn401 ==
    /\ enabled <=> api_key \notin {Null, ""}
    /\ [][/\ api_key' = api_key
          /\ enabled' # enabled =>
                 enabled /\ ~enabled' /\ ~authFailed /\ authFailed'
          /\ \A p \in Procs, resp \in ConcurrentResponses :
                 \/ enabled' = (enabled /\ resp.status # "401")
                 \/ ~QueryModelAttempt(p, resp)]_vars

\* a client constructed with a key has been disabled by a 401
DisabledAfter401 == api_key = "hf_key" /\ ~enabled /\ authFailed

\* what the sentiment classifier is expected to answer: a list, not empty, of
\* objects, or of one list of objects, each with a string label
UsableSentiment(result) ==
    /\ result.shape = "list"
    /\ result.items # <<>>
    /\ LET scores == IF result.items[1].kind = "list"
                     THEN result.items[1].items ELSE result.items
       IN /\ scores # <<>>
          /\ \A i \in 1..Len(scores) :
                 scores[i].kind = "dict" /\ scores[i].label \notin {Absent, Null}

\* C6: whenever the external sentiment classifier yields no usable result
\* (client disabled, 401, retries exhausted, timeout, any other failure, an
\* unexpected response payload), analyze_sentiment returns the local polarity
\* label (polarity > 0.1 Positive, polarity < -0.1 Negative, else Neutral)
\* and raises nothing.
UnusableSentimentFallsBack ==
    call.fn = "analyze_sentiment" =>
        ((~call.args.enabled \/ ~UsableSentiment(call.args.result)) =>
             call.ret = Ret(local_sentiment(call.args.polarity)))

\* C7: in every result the analyze endpoint returns (pipeline, empty-input
\* and error result) seoScore is an integer from 0 to 100.
SeoScoreInRange ==
    \A p \in Procs :
        response[p].kind \in AnalysisResults => response[p].seoScore \in 0..100

\* the pipeline returned a result with the largest score
FullScoreReturned ==
    \E p \in Procs : response[p].kind = "pipeline" /\ response[p].seoScore = 100

\* C8: calculate_seo_score is the sum of the readability bucket (>= 70: 25,
\* >= 50: 20, >= 30: 15, else 10), the word-count bucket (>= 600: 25,
\* >= 300: 20, >= 150: 15, else 5), the keyword bucket (>= 8: 25, >= 5: 20,
\* >= 3: 15, else 5) and the title bucket (length in [30,60]: 15, in [20,80]:
\* 10, else 5) plus the description bucket (length in [120,160]: 10, in
\* [100,180]: 7, else 3); it is 100 exactly when readability >= 70, word
\* count >= 600, 8 keywords or more, title length in [30,60] and description
\* length in [120,160].
SeoScoreIsBucketSum ==
    call.fn = "calculate_seo_score" =>
        LET a == call.args
            r == CASE a.readability >= 700 -> 25 [] a.readability \in 500..699 -> 20
                   [] a.readability \in 300..499 -> 15 [] OTHER -> 10
            w == CASE a.word_count >= 600 -> 25 [] a.word_count \in 300..599 -> 20
                   [] a.word_count \in 150..299 -> 15 [] OTHER -> 5
            k == CASE a.keywords >= 8 -> 25 [] a.keywords \in 5..7 -> 20
                   [] a.keywords \in 3..4 -> 15 [] OTHER -> 5
            t == CASE a.title \in 30..60 -> 15 [] a.title \in (20..29) \cup (61..80) -> 10
                   [] OTHER -> 5
            d == CASE a.description \in 120..160 -> 10
                   [] a.description \in (100..119) \cup (161..180) -> 7
                   [] OTHER -> 3
        IN /\ call.ret = r + w + k + t + d
           /\ call.ret = 100 <=> /\ a.readability >= 700
                                 /\ a.word_count >= 600
                                 /\ a.keywords >= 8
                                 /\ a.title \in 30..60
                                 /\ a.description \in 120..160

\* calculate_seo_score has been applied at the lower edge of every top bucket
FullScoreAtThresholds ==
    /\ call.fn = "calculate_seo_score"
    /\ call.args = [readability |-> 700, word_count |-> 600, keywords |-> 8,
                    title |-> 30, description |-> 120]
    /\ call.ret = 100

\* C9: in every result the analyze endpoint returns, the recommendations are
\* at most 8 and their ids are 1, 2, ..., n in list order.
RecommendationIdsContiguous ==
    \A p \in Procs :
        response[p].kind \in AnalysisResults =>
            /\ Len(response[p].recommendations) <= 8
            /\ \A i \in 1..Len(response[p].recommendations) :
                   response[p].recommendations[i].id = i

\* the pipeline returned all six recommendations it can make
SixRecommendationsReturned ==
    \E p \in Procs :
        /\ response[p].kind = "pipeline"
        /\ Len(response[p].recommendations) = 6

\* C10: for every text, every max_keywords >= 0 and every list the external
\* keyword capability returns (with repeated entries, with more than
\* max_keywords entries), extract_keywords returns at most max_keywords
\* entries, no two of them equal.
KeywordsBoundedAndDistinct ==
    call.fn = "extract_keywords" =>
        /\ Len(call.ret) <= call.args.max_keywords
        /\ \A i, j \in 1..Len(call.ret) : call.ret[i] = call.ret[j] => i = j

\* the external list has a repeated entry and more entries than
\* max_keywords, and extract_keywords returned max_keywords of them
LongAiListCut ==
    /\ call.fn = "extract_keywords"
    /\ call.args.max_keywords > 0
    /\ Len(call.args.ai_keywords) > call.args.max_keywords
    /\ \E i, j \in 1..Len(call.args.ai_keywords) :
           i # j /\ call.args.ai_keywords[i] = call.args.ai_keywords[j]
    /\ Len(call.ret) = call.args.max_keywords
    /\ call.args.tokens # <<>>

\* create_google_preview on titles and descriptions at and around the limits
PreviewTitleLens == {0, 10, 57, 59, 60, 61, 62, 100}
PreviewDescLens == {0, 30, 157, 159, 160, 161, 162, 300}

PreviewNext ==
    /\ call = NoCall
    /\ \E t \in PreviewTitleLens, d \in PreviewDescLens, td, dd \in {0, 1, 3} :
           /\ td <= t
           /\ dd <= d
           /\ Applied("create_google_preview",
                      [title |-> Str(t, td), description |-> Str(d, dd)],
                      create_google_preview(Str(t, td), Str(d, dd)))

PreviewSpec == PureInit /\ [][PreviewNext]_vars

\* C11: for every title and description, create_google_preview sets
\* titleTruncated iff the title is longer than 60 characters; the displayed
\* title is then 57 characters followed by "..." (60 characters ending in
\* three dots) and otherwise the title itself; descriptionTruncated and the
\* displayed description follow the same rule with the limits 160 and 157.
PreviewTruncatesBeyondLimits ==
    call.fn = "create_google_preview" =>
        LET title == call.args.title
            description == call.args.description
        IN /\ call.ret.titleTruncated <=> title.len > 60
           /\ call.ret.title = IF title.len > 60
                               THEN [len |-> 57 + 3, dots |-> 3] ELSE title
           /\ call.ret.descriptionTruncated <=> description.len > 160
           /\ call.ret.description = IF description.len > 160
                                     THEN [len |-> 157 + 3, dots |-> 3]
                                     ELSE description

\* a title of 61 characters is cut while a description of 160 is not
PreviewCutsTitleOf61 ==
    /\ call.fn = "create_google_preview"
    /\ call.args.title.len = 61
    /\ call.ret.titleTruncated
    /\ call.ret.title.len = 60
    /\ call.args.description.len = 160
    /\ ~call.ret.descriptionTruncated
    /\ call.ret.description = call.args.description

\* analyze(): word_count = self.count_words(text);
\* reading_time = self.calculate_reading_time(word_count)
word_count_and_time(text) ==
    LET word_count == count_words(text)
    IN [wordCount |-> word_count,
        readingTime |-> calculate_reading_time(word_count)]

\* the largest word count of a text given to count_words
MaxWords == 1000

ReadingNext ==
    /\ call = NoCall
    /\ \E words \in 0..MaxWords :
           Applied("calculate_reading_time", [words |-> words],
                   word_count_and_time([words |-> words]))

ReadingSpec == PureInit /\ [][ReadingNext]_vars

\* C12 (as stated, round read as the nearest integer with halves up): for
\* every non-empty text analysed, wordCount >= 0 and readingTime equals
\* max(1, round(wordCount/200)), the half-way word counts 100, 300, 500, ...
\* included.
ReadingTimeRoundsHalfUp ==
    call.fn = "calculate_reading_time" =>
        /\ call.ret.wordCount >= 0
        /\ \E halves \in 0..(2 * MaxWords) :
               /\ 400 * halves <= 2 * call.ret.wordCount + 200
               /\ 2 * call.ret.wordCount + 200 < 400 * (halves + 1)
               /\ call.ret.readingTime = Max(1, halves)

\* C12 (amended): for every non-empty text analysed, wordCount >= 0 and
\* readingTime is max(1, r), r being wordCount/200 rounded to the nearest
\* integer and, at the half-way word counts, to the even neighbour
\* (100 -> 0, 300 -> 2, 500 -> 2, 700 -> 4).
ReadingTimeRoundsHalfEven ==
    call.fn = "calculate_reading_time" =>
        /\ call.ret.wordCount >= 0
        /\ \E r \in 0..MaxWords :
               /\ 2 * (200 * r - call.ret.wordCount) \in -200..200
               /\ (2 * (200 * r - call.ret.wordCount) \in {-200, 200} => r % 2 = 0)
               /\ call.ret.readingTime = Max(1, r)

\* a text of 500 words, half-way between 2 and 3 minutes, got 2 minutes
ReadingTimeOf500Words ==
    /\ call.fn = "calculate_reading_time"
    /\ call.ret.wordCount = 500
    /\ call.ret.readingTime = 2

\* C13 (as stated): in every ContentHealth the analyze endpoint returns
\* (pipeline, empty-input and error result) readingTime is 0 when wordCount
\* is 0 and at least 1 when wordCount is greater than 0.
ReadingTimeZeroIffNoWords ==
    \A p \in Procs :
        response[p].kind \in AnalysisResults =>
            LET h == response[p].contentHealth
            IN /\ h.wordCount = 0 => h.readingTime = 0
               /\ h.wordCount > 0 => h.readingTime >= 1

\* C13 (amended): in every ContentHealth the analyze endpoint returns,
\* readingTime is at least 1 when wordCount is greater than 0; it is 0 in the
\* empty-input result and only there: a pipeline result and the error
\* result have readingTime >= 1 also when wordCount is 0.
ReadingTimeZeroOnlyForEmptyInput ==
    \A p \in Procs :
        response[p].kind \in AnalysisResults =>
            LET h == response[p].contentHealth
            IN /\ h.wordCount >= 0
               /\ h.wordCount > 0 => h.readingTime >= 1
               /\ h.readingTime = 0 <=> response[p].kind = "empty"
               /\ response[p].kind = "empty" => h.wordCount = 0

\* the pipeline returned a result for a text without a word ("..."): no
\* words, one minute
WordlessTextReadInOneMinute ==
    \E p \in Procs :
        /\ response[p].kind = "pipeline"
        /\ response[p].contentHealth.wordCount = 0
        /\ response[p].contentHealth.readingTime = 1

\* ------------------------------------------ a deterministic external service
\* query_model as a function of the responses to the successive requests of
\* one call: the last iteration, with its result and whether it disabled
\* the client
RECURSIVE query_model_last(_, _)
query_model_last(attempt_, resps) ==
    LET step == query_model(attempt_, resps[attempt_ + 1])
    IN IF step.done THEN step ELSE query_model_last(step.attempt, resps)

\* the model a call site posts to: extract_keywords_ai asks the summarization
\* model for the text, analyze_sentiment_advanced and /health the sentiment
\* model
model_of(s) == IF s \in {"kw", "kw2"} THEN "summarization" ELSE "sentiment"

\* a service that answers the same request with the same response
Services == [{"summarization", "sentiment"} -> Responses]

\* a handler run to its response, one after the other of its query_model
\* calls answered by `service`; `en` is hf_client.enabled
RECURSIVE run_handler(_, _, _, _, _)
run_handler(h, en, text, service, order) ==
    IF h.pc = "idle" THEN [response |-> h.response, enabled |-> en]
    ELSE LET last == query_model_last(0, [i \in 1..max_retries |->
                                              service[model_of(h.site)]])
             en_after == en /\ ~last.disable
         IN run_handler(resume(h.site, en_after, text, h.ctx, last.result, order),
                        en_after, text, service, order)

\* POST /api/analyze from request to response
analyze_run(en, pk, text, service, order) ==
    run_handler(analyze_content(en, pk, text), en, text, service, order)

\* two POST /api/analyze with the same text, one after the other
AnalyzeTwice(text, service) ==
    /\ call = NoCall
    /\ LET first == analyze_run(enabled, punkt, text, service, setOrder)
           second == analyze_run(first.enabled, punkt, text, service, setOrder)
       IN /\ call' = [fn |-> "analyze_twice",
                      args |-> [text |-> text, service |-> service],
                      ret |-> [first |-> first.response,
                               second |-> second.response]]
          /\ enabled' = second.enabled
          /\ authFailed' = (enabled /\ ~second.enabled)
    /\ UNCHANGED <<api_key, punkt, setOrder, lateRequest, pc, site, attempt,
                   requests, request, ctx, response>>

TwiceNext == \E text \in {BlankText, ShortText}, service \in Services :
                 AnalyzeTwice(text, service)

TwiceSpec == Init /\ [][TwiceNext]_vars

\* C14: analysing the same text twice in succession, the external capability
\* being disabled or answering the same request with the same response,
\* gives identical results: nothing the first analysis does, a change of the
\* client's enabled flag included, makes the second differ.
SecondAnalysisIdentical ==
    call.fn = "analyze_twice" => call.ret.first = call.ret.second

\* ------------------------------------------------ extract_title on its own
\* The lines a text is made of: an empty line, "Overview", a heading of 45
\* characters, a sentence of 40 and one of 75 characters ending in a period,
\* a line of 120 characters without a period, and "...".
TitleLines ==
    { Line(0, 0, FALSE, FALSE, 0, ""), Line(8, 0, FALSE, FALSE, 1, ""),
      Line(45, 0, FALSE, FALSE, 6, ""), Line(40, 1, FALSE, FALSE, 7, ""),
      Line(75, 1, FALSE, FALSE, 12, ""), Line(120, 0, FALSE, FALSE, 20, ""),
      Line(3, 3, FALSE, FALSE, 1, "") }

MaxLines == 4

\* sent_tokenize on lines joined by "\n": a sentence ends with the period
\* that closes a line, a line break alone ends none; `open` is the length of
\* the sentence begun so far (-1: none)
RECURSIVE sentences_from(_, _, _)
sentences_from(lines, i, open) ==
    IF i > Len(lines)
    THEN IF open > 0 THEN <<Str(open, 0)>> ELSE <<>>
    ELSE LET line == lines[i]
             sofar == IF open < 0 THEN line.len ELSE open + 1 + line.len
         IN IF line.len = 0 /\ open < 0 THEN sentences_from(lines, i + 1, open)
            ELSE IF line.dots > 0
            THEN <<Str(sofar, line.dots)>> \o sentences_from(lines, i + 1, -1)
            ELSE sentences_from(lines, i + 1, sofar)

RECURSIVE joined_len(_)
joined_len(lines) ==
    IF lines = <<>> THEN 0
    ELSE IF Len(lines) = 1 THEN lines[1].len
    ELSE lines[1].len + 1 + joined_len(Tail(lines))

\* the text "\n".join(lines); text.strip() leaves its first and last line
\* non-empty
TextOfLines(lines) ==
    Text(FALSE, joined_len(lines), lines[Len(lines)].dots, lines,
         sentences_from(lines, 1, -1), <<>>, 0, 0, 0)

TitleTexts ==
    {TextOfLines(lines) : lines \in
        {ls \in SeqsUpTo(TitleLines, MaxLines) :
            /\ ls # <<>>
            /\ ls[1].len > 0
            /\ ls[Len(ls)].len > 0}}

TitleNext ==
    /\ call = NoCall
    /\ \E text \in TitleTexts :
           Applied("extract_title", [text |-> text], extract_title(text, punkt))

TitleSpec == PureInit /\ [][TitleNext]_vars

\* C15: for every non-empty text extract_title returns a non-empty string
\* and raises no error, whichever branch produces the title.
TitleNeverEmpty ==
    call.fn = "extract_title" =>
        /\ ~call.ret.raised
        /\ call.ret.value.len > 0

\* C19: extract_title examines the first three non-empty lines of the text,
\* blank lines not counting towards the three: when one of them is longer than
\* 10 and shorter than 100 characters and does not end in a period, the title
\* is the first such line.
TitleFromFirstThreeNonEmptyLines ==
    call.fn = "extract_title" =>
        LET nonempty == SelectSeq(call.args.text.lines, LAMBDA l : l.len > 0)
            lines == Take(nonempty, 3)
            hits == {i \in 1..Len(lines) : title_line(lines[i])}
        IN hits # {} =>
               LET first == CHOOSE i \in hits : \A j \in hits : i <= j
               IN call.ret = Ret(Str(lines[first].len, lines[first].dots))

\* ------------------------------------- generate_recommendations on its own
RecTitleLens == {0, 29, 30, 60, 61, 80}
RecDescLens == {0, 119, 120, 160}
RecKeywords == {<<>>, <<"data">>, <<"guide", "data">>}
RecWordCounts == {0, 299, 300}
RecReadabilities == {0, 499, 500}

RecNext ==
    /\ call = NoCall
    /\ \E t \in RecTitleLens, d \in RecDescLens, keywords \in RecKeywords,
          word_count \in RecWordCounts, readability \in RecReadabilities,
          h1, h2 \in {0, 1} :
           LET content_structure == [headings |-> [h1 |-> h1, h2 |-> h2]]
           IN Applied("generate_recommendations",
                      [keywords |-> keywords, word_count |-> word_count,
                       readability |-> readability, title |-> Str(t, 0),
                       description |-> Str(d, 1), h1 |-> h1, h2 |-> h2],
                      generate_recommendations(keywords, word_count, readability,
                                               Str(t, 0), Str(d, 1),
                                               content_structure))

RecSpec == PureInit /\ [][RecNext]_vars

\* C16: generate_recommendations returns exactly the recommendations whose
\* rule holds, in the fixed order title (too short, otherwise too long),
\* description < 120, primary keyword keywords[0] of a non-empty list,
\* word count < 300, readability < 50, no h1 and no h2; the cap of 8 drops
\* none.
RecommendationsAreTheRulesThatHold ==
    call.fn = "generate_recommendations" =>
        LET a == call.args
            rules ==
                << [on |-> a.title.len < 30, title |-> "Optimize Title Length",
                    keyword |-> ""],
                   [on |-> a.title.len >= 30 /\ a.title.len > 60,
                    title |-> "Shorten Title Tag", keyword |-> ""],
                   [on |-> a.description.len < 120,
                    title |-> "Expand Meta Description", keyword |-> ""],
                   [on |-> a.keywords # <<>>,
                    title |-> "Optimize for Primary Keyword",
                    keyword |-> IF a.keywords # <<>> THEN a.keywords[1] ELSE ""],
                   [on |-> a.word_count < 300,
                    title |-> "Increase Content Length", keyword |-> ""],
                   [on |-> a.readability < 500,
                    title |-> "Improve Content Readability", keyword |-> ""],
                   [on |-> a.h1 = 0 /\ a.h2 = 0,
                    title |-> "Add Content Structure", keyword |-> ""] >>
            holding == SelectSeq(rules, LAMBDA r : r.on)
        IN /\ Len(call.ret) = Len(holding)
           /\ \A i \in 1..Len(holding) :
                  /\ call.ret[i].title = holding[i].title
                  /\ call.ret[i].keyword = holding[i].keyword

\* six rules hold at once, the most the title's either-or allows
SixRulesHold ==
    /\ call.fn = "generate_recommendations"
    /\ Len(call.ret) = 6
    /\ call.ret[1].title = "Shorten Title Tag"
    /\ call.ret[3].keyword = "guide"

\* ------------------------------------------------- the waits of query_model
\* time.sleep(5) after a 429 response
rate_limit_wait == 5

\* a wait that is one second longer on every attempt
backoff_linear(attempt_) == attempt_ + 1

\* wait_time = 2**attempt, attempt being the index of the for loop
backoff(attempt_) == 2 ^ attempt_

\* the seconds query_model sleeps after the response of iteration attempt_
wait_after(attempt_, resp) ==
    CASE resp.status = "503" -> backoff(attempt_)
      [] resp.status = "429" -> rate_limit_wait
      [] OTHER -> 0

\* one call of query_model, its requests answered by resps in turn: the
\* status received and the wait that followed, iteration by iteration
RECURSIVE query_model_trace(_, _)
query_model_trace(attempt_, resps) ==
    LET resp == resps[attempt_ + 1]
        step == query_model(attempt_, resp)
        here == <<[status |-> resp.status, wait |-> wait_after(attempt_, resp)]>>
    IN IF step.done THEN here
       ELSE here \o query_model_trace(step.attempt, resps)

WaitNext ==
    /\ call = NoCall
    /\ \E resps \in [1..max_retries -> Responses] :
           Applied("query_model", [responses |-> resps],
                   query_model_trace(0, resps))

WaitSpec == PureInit /\ [][WaitNext]_vars

\* the number of 503 responses among the first k of a trace
RECURSIVE warmups(_, _)
warmups(trace, k) ==
    IF k = 0 THEN 0
    ELSE warmups(trace, k - 1) + (IF trace[k].status = "503" THEN 1 ELSE 0)

\* C17 as stated: within one query_model call the n-th 503 response is
\* followed by a wait of 2^(n-1) seconds, for every sequence of responses.
NthWarmupWaitsTwoToTheNMinusOne ==
    call.fn = "query_model" =>
        \A k \in 1..Len(call.ret) :
            call.ret[k].status = "503" =>
                call.ret[k].wait = 2 ^ (warmups(call.ret, k) - 1)

\* C17: within one query_model call a 503 response to the k-th request is
\* followed by a wait of 2^(k-1) seconds, whatever the earlier responses of
\* the call were; a 429 response is followed by a wait of 5 seconds; no other
\* response is followed by a wait; every request, waited after or not, counts
\* against the one cap of max_retries requests.
WarmupWaitGrowsWithTheAttempt ==
    call.fn = "query_model" =>
        /\ Len(call.ret) <= max_retries
        /\ \A k \in 1..Len(call.ret) :
               /\ call.ret[k].status = "503" => call.ret[k].wait = 2 ^ (k - 1)
               /\ call.ret[k].status = "429" => call.ret[k].wait = 5
               /\ call.ret[k].status \notin {"503", "429"} => call.ret[k].wait = 0
               /\ call.ret[k].wait > 0 /\ k < max_retries => Len(call.ret) > k

\* a first 503 that comes after a 429 and is waited after for two seconds
FirstWarmupAfterRateLimit ==
    /\ call.fn = "query_model"
    /\ Len(call.ret) = 3
    /\ call.ret[1].status = "429"
    /\ call.ret[2].status = "503"
    /\ call.ret[2].wait = 2
    /\ call.ret[3].status = "503"
    /\ call.ret[3].wait = 4

\* ---------------------------- extract_keywords with the external keywords
\* what extract_keywords_ai can return: words of four letters or more that are
\* no common words
AiWords == {"guide", "data", "kw4"}

MergeNext ==
    /\ call = NoCall
    /\ \E tokens \in SeqsUpTo(TokenPool, MaxTokens),
          ai_keywords \in SeqsUpTo(AiWords, MaxAi), max_keywords \in 0..MaxKw :
           Applied("extract_keywords",
                   [tokens |-> tokens, max_keywords |-> max_keywords,
                    ai_keywords |-> ai_keywords],
                   extract_keywords(tokens, max_keywords, ai_keywords))

MergeSpec == PureInit /\ [][MergeNext]_vars

\* the words of set C, the more frequent in `words` first, of two equally
\* frequent ones the one met first
Ranked(C, words) ==
    LET FirstAt(w) == CHOOSE i \in 1..Len(words) :
                          words[i] = w /\ \A j \in 1..(i - 1) : words[j] # w
        Before(v, w) == \/ Count(words, v) > Count(words, w)
                        \/ /\ Count(words, v) = Count(words, w)
                           /\ FirstAt(v) < FirstAt(w)
    IN [i \in 1..Cardinality(C) |->
            CHOOSE w \in C : Cardinality({v \in C : Before(v, w)}) = i - 1]

\* C18: extract_keywords returns the external keywords first, deduplicated
\* and in the order supplied, then the traditional keywords not already
\* present, by descending frequency with ties in first-encountered order,
\* the whole list cut to max_keywords; without external keywords the result
\* is the first max_keywords entries of the traditional ranking.
ExternalKeywordsThenRanking ==
    call.fn = "extract_keywords" =>
        LET a == call.args
            words == SelectSeq(a.tokens, meaningful)
            external == distinct(a.ai_keywords)
            others == Ranked(Range(words) \ Range(external), words)
        IN /\ call.ret = Take(external \o others, a.max_keywords)
           /\ a.ai_keywords = <<>> =>
                  call.ret = Take(Ranked(Range(words), words), a.max_keywords)

\* two external keywords, one of them also the most frequent word of the
\* text, come first; the text's other word follows
ExternalBeforeTraditional ==
    /\ call.fn = "extract_keywords"
    /\ call.args.ai_keywords = <<"kw4", "guide">>
    /\ call.args.tokens = <<"data", "guide", "guide">>
    /\ call.args.max_keywords = 3
    /\ call.ret = <<"kw4", "guide", "data">>

\* --------------------------------- generate_meta_description on its own
\* the lengths of the sentences of a text, each ending in a period
SentenceLens == {40, 50, 70, 100, 154, 155, 200}

MaxSentences == 3

\* a text of these sentences on one line, a space between two
TextOfSentences(sentences) ==
    LET n == joined_len(sentences)
    IN Text(FALSE, n, 1, <<Line(n, 1, FALSE, FALSE, n \div 6, "")>>, sentences,
            <<>>, n \div 6, 600, 0)

MetaNext ==
    /\ call = NoCall
    /\ \E lens \in SeqsUpTo(SentenceLens, MaxSentences) :
           /\ lens # <<>>
           /\ LET text == TextOfSentences([i \in 1..Len(lens) |-> Str(lens[i], 1)])
              IN Applied("generate_meta_description", [text |-> text],
                         generate_meta_description(text, punkt))

MetaSpec == PureInit /\ [][MetaNext]_vars

\* len(sentence_1 + " " + ... + sentence_k + " ")
RECURSIVE run_len(_, _)
run_len(sentences, k) ==
    IF k = 0 THEN 0 ELSE run_len(sentences, k - 1) + sentences[k].len + 1

\* C20: generate_meta_description returns the trimmed concatenation of the
\* longest leading run of sentences whose length, one trailing space per
\* sentence counted, is at most 155; a sentence after the first one that does
\* not fit is never taken; when not even the first sentence fits, the result
\* is the raw text cut to 155 characters plus "...", or the raw text itself
\* when it has at most 155 characters.
DescriptionIsLongestLeadingRun ==
    call.fn = "generate_meta_description" =>
        LET text == call.args.text
            sentences == text.sentences
            fitting == {k \in 0..Len(sentences) : run_len(sentences, k) <= 155}
            longest == CHOOSE k \in fitting : \A j \in fitting : j <= k
        IN /\ ~call.ret.raised
           /\ longest > 0 =>
                  /\ call.ret.value.len = run_len(sentences, longest) - 1
                  /\ call.ret.value.dots = sentences[longest].dots
           /\ longest = 0 /\ text.len > 155 =>
                  call.ret.value = Str(158, 3)
           /\ longest = 0 /\ text.len <= 155 =>
                  call.ret.value = Str(text.len, text.dots)

\* the second sentence does not fit, the third would have: the description is
\* the first sentence alone
LaterShorterSentenceLeftOut ==
    /\ call.fn = "generate_meta_description"
    /\ Len(call.args.text.sentences) = 3
    /\ call.args.text.sentences[1].len = 100
    /\ call.args.text.sentences[2].len = 70
    /\ call.args.text.sentences[3].len = 50
    /\ call.ret.value.len = 100

\* ------------------------------------- analyze_content_structure on its own
\* one-line texts: the line with or without a markdown prefix, upper-case,
\* title-case or neither, of 3, 9 or 11 words, 30, 100 or 101 characters,
\* ending in a period or not
HeadingLines ==
    {Line(n, d, up, tc, nw, md) :
        n \in {30, 100, 101}, d \in {0, 1}, up \in BOOLEAN, tc \in BOOLEAN,
        nw \in {3, 9, 11}, md \in {"", "# ", "## ", "### ", "#"}}

StructureNext ==
    /\ call = NoCall
    /\ \E line \in HeadingLines :
           LET text == TextOfLines(<<line>>)
           IN Applied("analyze_content_structure", [text |-> text],
                      analyze_content_structure(text))

StructureSpec == PureInit /\ [][StructureNext]_vars

\* C21: every non-empty line of at most 100 characters that starts with
\* "# ", "## " or "### " is counted as an h1, h2 or h3 heading respectively,
\* whatever the capitalisation of the rest of the line.
MarkdownPrefixDecidesHeading ==
    call.fn = "analyze_content_structure" =>
        LET line == call.args.text.lines[1]
            headings == call.ret.headings
        IN line.len > 0 /\ line.len <= 100 =>
               /\ line.md = "# " =>
                      headings.h1 = 1 /\ headings.h2 = 0 /\ headings.h3 = 0
               /\ line.md = "## " =>
                      headings.h1 = 0 /\ headings.h2 = 1 /\ headings.h3 = 0
               /\ line.md = "### " =>
                      headings.h1 = 0 /\ headings.h2 = 0 /\ headings.h3 = 1

\* C22 as stated: in every result the analyze endpoint returns, the pipeline
\* result, the empty-input result and the error result, the complexity of
\* contentStructure.readability agrees with its fleschScore: Easy from 70,
\* Medium from 30 and below 70, Hard below 30.
ComplexityAgreesInEveryResult ==
    \A p \in Procs :
        response[p].kind \in AnalysisResults =>
            LET r == response[p].contentStructure.readability
            IN /\ r.fleschScore >= 700 => r.complexity = "Easy"
               /\ r.fleschScore >= 300 /\ r.fleschScore < 700 =>
                      r.complexity = "Medium"
               /\ r.fleschScore < 300 => r.complexity = "Hard"

\* C22 (amended): in every pipeline result and in the error result the
\* complexity agrees with the fleschScore (Easy from 70, Medium from 30 and
\* below 70, Hard below 30); the empty-input result carries the fixed pair
\* fleschScore 0, complexity Medium.
ComplexityAgreesButForEmptyInput ==
    \A p \in Procs :
        response[p].kind \in AnalysisResults =>
            LET r == response[p].contentStructure.readability
            IN /\ response[p].kind # "empty" =>
                      /\ r.fleschScore >= 700 => r.complexity = "Easy"
                      /\ r.fleschScore >= 300 /\ r.fleschScore < 700 =>
                             r.complexity = "Medium"
                      /\ r.fleschScore < 300 => r.complexity = "Hard"
               /\ response[p].kind = "empty" =>
                      r.fleschScore = 0 /\ r.complexity = "Medium"

\* a pipeline result at the score of exactly 70: Easy
EasyAtSeventy ==
    \E p \in Procs :
        /\ response[p].kind = "pipeline"
        /\ response[p].contentStructure.readability.fleschScore = 700
        /\ response[p].contentStructure.readability.complexity = "Easy"

\* C23: generate_meta_description returns at most 158 characters, so in
\* every result of the analysis pipeline googlePreview.descriptionTruncated
\* is false and googlePreview.description equals metaTags.description.
PreviewShowsWholeDescription ==
    \A p \in Procs :
        response[p].kind = "pipeline" =>
            /\ response[p].metaTags.description.len <= 158
            /\ ~response[p].googlePreview.descriptionTruncated
            /\ response[p].googlePreview.description
                   = response[p].metaTags.description

\* no sentence fitted: the description is 155 characters of the text and
\* "...", and the preview shows all 158
LongestDescriptionNotTruncated ==
    \E p \in Procs :
        /\ response[p].kind = "pipeline"
        /\ response[p].metaTags.description = Str(158, 3)
        /\ response[p].googlePreview.description = Str(158, 3)
        /\ ~response[p].googlePreview.descriptionTruncated

====
